---- MODULE Spec2Model ----
(***************************************************************************)
(* TransactionManager of packages/indexer-common/src/transactions.ts:      *)
(* one executeTransaction call (gating, fee policy, first broadcast, the   *)
(* attempt loop with the error classifier and the revert diagnoser),       *)
(* running next to the pause and operator monitors that publish the two    *)
(* reactive values it reads.                                               *)
(*                                                                         *)
(* Amounts are naturals (BigNumber mul/div is exact integer arithmetic,    *)
(* div truncating).  An absent (null / undefined) amount is Null.          *)
(* An error message is the set of the substrings, among those the          *)
(* classifier looks for, that it contains.                                 *)
(***************************************************************************)
EXTENDS Integers, FiniteSets, Sequences, TLC

\* ---------------------------------------------------------------- bounds
\* largest configured maxTransactionAttempts explored (0 = unlimited)
MaxLimit == 2
\* cap of the attempt counter (needed when the limit is 0 = unlimited)
MaxAttempt == 3
\* cap of the fee polls of waitForGasPricesBelowThreshold
MaxPolls == 3

\* ------------------------------------------------------------- constants
\* null / undefined amount
Null == -1
\* divisor of the permille bump
Permille == 1000

\* substrings of error.message the classifier tests with includes()
SameHash == "Transaction with the same hash was already imported"
NonceUsed == "nonce has already been used"
NonceLow == "Transaction nonce is too low. Try incrementing the nonce."
TryFee == "Try increasing the fee"
PriceLow == "gas price supplied is too low"
Timeout == "timeout exceeded"

\* messages a send / wait rejection may carry
Messages ==
  { {}, {SameHash}, {NonceUsed}, {NonceLow}, {TryFee}, {PriceLow}, {Timeout},
    {NonceUsed, NonceLow}, {NonceLow, Timeout} }

\* errors
PlainError(msg) == [cls |-> "Error", code |-> "", msg |-> msg]
indexerError(code) == [cls |-> "IndexerError", code |-> code, msg |-> {}]
NoError == [cls |-> "none", code |-> "", msg |-> {}]

\* configurations (TransactionMonitoring) explored; gasIncreaseFactor is
\* held as the permille integer parseUnits(factor, 3) yields
GasIncreaseFactors == {1200}
BaseFeePerGasMaxes == {0, 100}
GasPriceMaxes == {100}

Specifications ==
  [ gasIncreaseFactor : GasIncreaseFactors,
    baseFeePerGasMax : BaseFeePerGasMaxes,
    gasPriceMax : GasPriceMaxes,
    maxTransactionAttempts : 0..MaxLimit ]

\* constructor: adjustedGasIncreaseFactor, adjustedBaseFeePerGasMax
adjustedGasIncreaseFactor(s) == s.gasIncreaseFactor
adjustedBaseFeePerGasMax(s) ==
  IF s.baseFeePerGasMax # 0 THEN s.baseFeePerGasMax ELSE s.gasPriceMax

\* fee snapshots getFeeData may return
FeeData(gp, mf, mp) ==
  [gasPrice |-> gp, maxFeePerGas |-> mf, maxPriorityFeePerGas |-> mp]
NoFeeData == FeeData(Null, Null, Null)
FeeSnapshots ==
  { FeeData(150, Null, Null), FeeData(120, Null, Null),
    FeeData(100, Null, Null), FeeData(90, Null, Null),
    FeeData(Null, 320, 20), FeeData(95, 200, 20),
    FeeData(150, 200, Null), FeeData(Null, 200, Null),
    NoFeeData }

\* gas estimates, first-broadcast nonces and fee fields of the first tx
GasEstimates == {7}
FirstNonces == {5}
LegacyGasPrices == {100, 7}
ModernFees == { <<200, 20>> }

\* transactionType testing gasPrice before the two type 2 fields
transactionTypeLegacyFirst(data) ==
  IF data.gasPrice # Null THEN "ZERO"
  ELSE IF data.maxPriorityFeePerGas # Null /\ data.maxFeePerGas # Null THEN "TWO"
  ELSE "throw"

\* transactionType: BigNumber objects are truthy whatever their value
transactionType(data) ==
  IF data.maxPriorityFeePerGas # Null /\ data.maxFeePerGas # Null THEN "TWO"
  ELSE IF data.gasPrice # Null THEN "ZERO"
  ELSE "throw"

\* Math.ceil(estimate * 1.5)
padGasLimit(estimate) == (estimate * 3 + 1) \div 2

\* BigNumber.from(v).mul(gasBump).div(1000)
bump(v, gasBump) == (v * gasBump) \div Permille


\* ------------------------------------------------------- error classifier
\* what updateTransactionConfig did: the error it threw (NoError when it
\* returned), whether it awaited delay(30000) first, and the config object
\* as it left it (the object is mutated in place)
Classified(thrown, delayed, cfg) ==
  [thrown |-> thrown, delayed |-> delayed, txConfig |-> cfg]

\* error.message.includes(...) of the three branches for plain errors
isDuplicate(msg) == SameHash \in msg \/ NonceUsed \in msg
isNonceTooLow(msg) == NonceLow \in msg
isFeeTooLow(msg) == TryFee \in msg \/ PriceLow \in msg \/ Timeout \in msg

\* BigNumber.from(null) throws an invalid-argument error
invalidBigNumber == [cls |-> "Error", code |-> "INVALID_ARGUMENT", msg |-> {}]

\* bumpGasLimit forgetting the nonce
bumpGasLimitOnly(cfg) ==
  [cfg EXCEPT !.gasLimit = bump(cfg.gasLimit, cfg.gasBump)]

\* IE050: gasLimit bumped, nonce + 1
bumpGasLimit(cfg) ==
  [cfg EXCEPT !.gasLimit = bump(cfg.gasLimit, cfg.gasBump),
              !.nonce = cfg.nonce + 1]

\* bumpFees forgetting the priority fee of a type 2 config
bumpFeesMaxOnly(cfg) ==
  IF cfg.type = "ZERO"
  THEN [cfg EXCEPT !.gasPrice = bump(cfg.gasPrice, cfg.gasBump)]
  ELSE IF cfg.type = "TWO"
  THEN [cfg EXCEPT !.maxFeePerGas = bump(cfg.maxFeePerGas, cfg.gasBump)]
  ELSE cfg

\* fee too low / timeout: the fee fields of the config's type are bumped
bumpFees(cfg) ==
  IF cfg.type = "ZERO"
  THEN [cfg EXCEPT !.gasPrice = bump(cfg.gasPrice, cfg.gasBump)]
  ELSE IF cfg.type = "TWO"
  THEN [cfg EXCEPT !.maxFeePerGas = bump(cfg.maxFeePerGas, cfg.gasBump),
                   !.maxPriorityFeePerGas =
                       bump(cfg.maxPriorityFeePerGas, cfg.gasBump)]
  ELSE cfg

\* the fee field BigNumber.from would reject, if any
feeFieldMissing(cfg) ==
  \/ cfg.type = "ZERO" /\ cfg.gasPrice = Null
  \/ cfg.type = "TWO" /\ (cfg.maxFeePerGas = Null \/ cfg.maxPriorityFeePerGas = Null)

\* bumpNonce falling through to the fee branch (if in place of else if)
bumpNonceAndFees(cfg) ==
  IF feeFieldMissing(cfg) THEN [cfg EXCEPT !.nonce = cfg.nonce + 1]
  ELSE bumpFees([cfg EXCEPT !.nonce = cfg.nonce + 1])

\* nonce too low: nonce + 1
bumpNonce(cfg) == [cfg EXCEPT !.nonce = cfg.nonce + 1]

\* the branch for error instanceof IndexerError; attempt not yet incremented
classifyIndexerError(cfg, error) ==
  IF error.code = "IE050" THEN Classified(NoError, FALSE, bumpGasLimit(cfg))
  ELSE IF error.code = "IE051" THEN Classified(error, FALSE, cfg)
  ELSE Classified(NoError, FALSE, cfg)

\* classifyError testing nonce too low before the duplicate broadcast
classifyErrorNonceFirst(cfg, error) ==
  IF isNonceTooLow(error.msg)
  THEN Classified(NoError, FALSE, bumpNonce(cfg))
  ELSE IF isDuplicate(error.msg)
  THEN Classified(indexerError("IE058"), TRUE, cfg)
  ELSE IF isFeeTooLow(error.msg)
  THEN IF feeFieldMissing(cfg)
       THEN Classified(invalidBigNumber, FALSE, cfg)
       ELSE Classified(NoError, FALSE, bumpFees(cfg))
  ELSE Classified(NoError, FALSE, cfg)

\* the branch for error instanceof Error; attempt not yet incremented
classifyError(cfg, error) ==
  IF isDuplicate(error.msg)
  THEN Classified(indexerError("IE058"), TRUE, cfg)
  ELSE IF isNonceTooLow(error.msg)
  THEN Classified(NoError, FALSE, bumpNonce(cfg))
  ELSE IF isFeeTooLow(error.msg)
  THEN IF feeFieldMissing(cfg)
       THEN Classified(invalidBigNumber, FALSE, cfg)
       ELSE Classified(NoError, FALSE, bumpFees(cfg))
  ELSE Classified(NoError, FALSE, cfg)

\* txConfig.attempt += 1 on every path that did not throw
incrementAttempt(r) ==
  IF r.thrown # NoError THEN r
  ELSE [r EXCEPT !.txConfig.attempt = r.txConfig.attempt + 1]

\* updateTransactionConfig returning early, before attempt += 1, for an
\* indexer error
updateTransactionConfigEarlyReturn(cfg, error) ==
  IF error.cls = "IndexerError" THEN classifyIndexerError(cfg, error)
  ELSE IF error.cls = "Error" THEN incrementAttempt(classifyError(cfg, error))
  ELSE incrementAttempt(Classified(NoError, FALSE, cfg))

updateTransactionConfig(cfg, error) ==
  incrementAttempt(
    IF error.cls = "IndexerError" THEN classifyIndexerError(cfg, error)
    ELSE IF error.cls = "Error" THEN classifyError(cfg, error)
    ELSE Classified(NoError, FALSE, cfg))

\* ------------------------------------------------------- revert diagnoser
\* outcomes of ethereum.call(txRequest): it returns code whose tail decodes
\* to a text, returns code that toUtf8String rejects, raises an error with
\* a body (containing "out of gas" or not), or raises an error with no body
CallOutcomes ==
  { [kind |-> "code", text |-> "out of gas"],
    [kind |-> "code", text |-> "unknown"],
    [kind |-> "code", text |-> "assertion failed"],
    [kind |-> "undecodable", text |-> ""],
    [kind |-> "body", text |-> "out of gas"],
    [kind |-> "body", text |-> "execution reverted"],
    [kind |-> "nobody", text |-> ""] }

\* e.body.includes(...) on an error without body raises a TypeError
typeError == [cls |-> "Error", code |-> "TypeError", msg |-> {}]

\* getRevertReason: the reason returned ("" when it threw) and the error
getRevertReason(o) ==
  IF o.kind = "code" THEN [reason |-> o.text, thrown |-> NoError]
  ELSE IF o.kind = "body"
  THEN IF o.text = "out of gas"
       THEN [reason |-> "out of gas", thrown |-> NoError]
       ELSE [reason |-> "", thrown |-> indexerError("IE051")]
  ELSE [reason |-> "", thrown |-> typeError]

\* the error thrown inside the try block for a receipt with status 0
revertError(o) ==
  LET r == getRevertReason(o) IN
  IF r.thrown # NoError THEN r.thrown
  ELSE IF r.reason = "out of gas" THEN indexerError("IE050")
  ELSE IF r.reason = "unknown" THEN indexerError("IE051")
  ELSE indexerError("IE057")

\* ------------------------------------------------------------- fee policy
\* the reference fee waitForGasPricesBelowThreshold compares
referenceFee(data) ==
  IF transactionType(data) = "TWO"
  THEN (data.maxFeePerGas - data.maxPriorityFeePerGas) \div 2
  ELSE data.gasPrice

\* the loop's test with > in place of >=
aboveThresholdStrict(data, max) == referenceFee(data) > max

\* the loop's test: true when the snapshot makes it wait and poll again
aboveThreshold(data, max) == referenceFee(data) >= max

\* the snapshot returned: gasPrice forced to null for type 2
acceptedFeeData(data) ==
  IF transactionType(data) = "TWO" THEN [data EXCEPT !.gasPrice = Null] ELSE data

\* ---------------------------------------------------------------- monitors
\* results of the network subgraph's checkedQuery
PauseQueryResults ==
  { [error |-> TRUE, hasData |-> FALSE, isPaused |-> FALSE],
    [error |-> FALSE, hasData |-> FALSE, isPaused |-> FALSE],
    [error |-> FALSE, hasData |-> TRUE, isPaused |-> FALSE],
    [error |-> FALSE, hasData |-> TRUE, isPaused |-> TRUE] }

\* the reducer step of monitorNetworkPauses taking a failed query for
\* "not paused"
pauseStepAssumeActive(currentlyPaused, q) ==
  IF q.error \/ ~q.hasData THEN FALSE ELSE q.isPaused

\* the reducer step of monitorNetworkPauses
pauseStep(currentlyPaused, q) ==
  IF q.error \/ ~q.hasData THEN currentlyPaused ELSE q.isPaused

\* results of contracts.staking.isOperator
OperatorCallResults ==
  { [error |-> TRUE, value |-> FALSE],
    [error |-> FALSE, value |-> FALSE],
    [error |-> FALSE, value |-> TRUE] }

\* the reducer step of monitorIsOperator
operatorStep(isOp, c) == IF c.error THEN isOp ELSE c.value

\* sequentialTimerReduce (./sequential-timer): the value published after a
\* step is the step's result, or the previous value when the step failed
sequentialTimerReduce(previous, step) ==
  IF step.failed THEN previous ELSE step.value

\* the monitors' step functions catch every error, so they never fail
Stepped(value) == [failed |-> FALSE, value |-> value]

\* ------------------------------------------------------------------ state
VARIABLES
  paused,          \* the value the pause monitor publishes (this.paused)
  isOperator,      \* the value the operator monitor publishes (this.isOperator)
  specification,   \* this.specification
  pc,              \* where executeTransaction is
  feeData,         \* the snapshot waitForGasPricesBelowThreshold returned
  paddedGasLimit,  \* Math.ceil(estimate * 1.5)
  tx,              \* the last transaction response
  txRequest,       \* the last request built for a resubmission, or undefined
  txConfig,        \* the TransactionConfig
  error,           \* the error caught by the loop's catch, about to be classified
  output,          \* the receipt stored for the caller
  result,          \* how the call ended: none, paused, unauthorized, confirmed,
                   \* undefined (returned without a receipt), raised
  raised,          \* the error the call raised
  raisedFrom,      \* the step whose error escaped
  feePolls,        \* calls of ethereum.getFeeData
  gasEstimations,  \* calls of gasEstimation
  sendCalls,       \* calls of transaction(...) and wallet.sendTransaction
  delays,          \* completed delay(30000) waits
  classified,      \* calls of updateTransactionConfig
  polled,          \* the snapshot the last ethereum.getFeeData returned
  replayed,        \* the request the last getRevertReason was given
  pauseQuery,      \* result of the pause monitor's last query (MonitorSpec)
  operatorCall,    \* result of the operator monitor's last call (MonitorSpec)
  pauseSteps,      \* invocations of the pause monitor's step (MonitorSpec)
  operatorSteps,   \* invocations of the operator monitor's step (MonitorSpec)
  events,          \* receipt.events given to findEvent (FindEventSpec)
  logValue,        \* the field value findEvent looks for (FindEventSpec)
  found,           \* what findEvent returned (FindEventSpec)
  findPc           \* whether findEvent was called (FindEventSpec)

vars ==
  << paused, isOperator, specification, pc, feeData, paddedGasLimit, tx,
     txRequest, txConfig, error, output, result, raised, raisedFrom,
     feePolls, gasEstimations, sendCalls, delays, classified, polled,
     replayed, pauseQuery, operatorCall, pauseSteps, operatorSteps, events,
     logValue, found, findPc >>

\* the variables of the monitors' observation and of findEvent
observation == << pauseQuery, operatorCall, pauseSteps, operatorSteps >>
extraction == << events, logValue, found, findPc >>

monitored == << paused, isOperator >>
counters == << feePolls, gasEstimations, sendCalls, delays, classified >>

\* value / to / data / chainId / from of the transaction
Payload == "payload"

NoTx ==
  [ hash |-> 0, payload |-> "", nonce |-> Null, gasPrice |-> Null,
    maxFeePerGas |-> Null, maxPriorityFeePerGas |-> Null, gasLimit |-> Null ]
Undefined ==
  [ defined |-> FALSE, payload |-> "", nonce |-> Null, gasPrice |-> Null,
    maxFeePerGas |-> Null, maxPriorityFeePerGas |-> Null, gasLimit |-> Null ]
NoConfig ==
  [ attempt |-> 0, type |-> "", gasBump |-> 0, nonce |-> Null, gasPrice |-> Null,
    maxFeePerGas |-> Null, maxPriorityFeePerGas |-> Null, gasLimit |-> Null ]
NoReceipt == [status |-> Null, hash |-> 0]

\* no monitor step observed yet (the results are read once steps > 0)
ObservationIdle ==
  /\ pauseQuery = [error |-> FALSE, hasData |-> FALSE, isPaused |-> FALSE]
  /\ operatorCall = [error |-> FALSE, value |-> FALSE]
  /\ pauseSteps = 0
  /\ operatorSteps = 0

\* ---------------------------------------------------------------- findEvent
\* most log entries of a receipt
MaxLogs == 3

\* contractInterface.getEventTopic(eventType), and another event's topic
ExpectedTopic == "topic(eventType)"
OtherTopic == "topic(other)"

\* values of the field logKey in the logs, and values looked for
FieldValues == {"0xA", "0xa", "0xB"}
LogValues == {"0xA", "0xB", "0xb", "0xC"}

\* String.prototype.toLocaleLowerCase on the strings above
toLocaleLowerCase(str) ==
  CASE str = "0xA" -> "0xa"
    [] str = "0xB" -> "0xb"
    [] str = "0xC" -> "0xc"
    [] OTHER -> str

\* the receipts' logs: entry i has topics and data with the field's value
LogEntries == [topics : {{ExpectedTopic}, {OtherTopic}}, field : FieldValues]
Receipts ==
  UNION { [1..n -> LogEntries] : n \in 0..MaxLogs }

\* contractInterface.decodeEventLog: the decoded event of log entry i
decodeEventLog(event, i) ==
  [present |-> TRUE, field |-> event.field, logIndex |-> i]

\* undefined, as find returns it
Absent == [present |-> FALSE, field |-> "", logIndex |-> 0]

\* the log entries left by filter, decoded by map, in log order
decodedEvents(evs) ==
  LET idx == [i \in 1..Len(evs) |-> i]
      kept == SelectSeq(idx, LAMBDA i : ExpectedTopic \in evs[i].topics)
  IN [k \in 1..Len(kept) |-> decodeEventLog(evs[kept[k]], kept[k])]

\* findEvent comparing the field as it is, without lowering the case
findEventCaseSensitive(evs, value) ==
  LET hits == SelectSeq(decodedEvents(evs), LAMBDA d : d.field = value)
  IN IF hits = << >> THEN Absent ELSE Head(hits)

\* findEvent: the first decoded event whose field equals logValue, both
\* lowered
findEvent(evs, value) ==
  LET hits == SelectSeq(decodedEvents(evs),
                LAMBDA d : toLocaleLowerCase(d.field) = toLocaleLowerCase(value))
  IN IF hits = << >> THEN Absent ELSE Head(hits)

\* no call of findEvent
ExtractionIdle ==
  /\ events = << >>
  /\ logValue = ""
  /\ found = Absent
  /\ findPc = "idle"

\* executeTransaction called, nothing done yet
CallStarted ==
  /\ pc = "gate_paused"
  /\ feeData = NoFeeData
  /\ paddedGasLimit = 0
  /\ tx = NoTx
  /\ txRequest = Undefined
  /\ txConfig = NoConfig
  /\ error = NoError
  /\ output = NoReceipt
  /\ result = "none"
  /\ raised = NoError
  /\ raisedFrom = ""
  /\ feePolls = 0
  /\ gasEstimations = 0
  /\ sendCalls = 0
  /\ delays = 0
  /\ classified = 0
  /\ polled = NoFeeData
  /\ replayed = Undefined

Init ==
  /\ paused \in BOOLEAN
  /\ isOperator \in BOOLEAN
  /\ specification \in Specifications
  /\ CallStarted
  /\ ObservationIdle
  /\ ExtractionIdle

\* --------------------------------------------------------------- monitors
\* most monitor steps observed in MonitorSpec
MaxSteps == 3

\* one timer tick of the pause monitor whose query gave q
PauseTick(q) ==
  paused' = sequentialTimerReduce(paused, Stepped(pauseStep(paused, q)))

\* one timer tick of the operator monitor whose call gave c
OperatorTick(c) ==
  isOperator' =
    sequentialTimerReduce(isOperator, Stepped(operatorStep(isOperator, c)))

MonitorNetworkPauses ==
  /\ \E q \in PauseQueryResults : PauseTick(q)
  /\ UNCHANGED << isOperator, specification, polled, replayed, observation,
                  extraction, pc, feeData, paddedGasLimit, tx,
                  txRequest, txConfig, error, output, result, raised,
                  raisedFrom, counters >>

MonitorIsOperator ==
  /\ \E c \in OperatorCallResults : OperatorTick(c)
  /\ UNCHANGED << paused, specification, polled, replayed, observation,
                  extraction, pc, feeData, paddedGasLimit, tx,
                  txRequest, txConfig, error, output, result, raised,
                  raisedFrom, counters >>

\* the variables of executeTransaction
call ==
  << specification, pc, feeData, paddedGasLimit, tx, txRequest, txConfig,
     error, output, result, raised, raisedFrom, counters, polled, replayed >>

\* the pause monitor's tick, its query result and invocation count recorded
ObservedPauseTick ==
  /\ pauseSteps < MaxSteps
  /\ \E q \in PauseQueryResults : PauseTick(q) /\ pauseQuery' = q
  /\ pauseSteps' = pauseSteps + 1
  /\ UNCHANGED << isOperator, operatorCall, operatorSteps, call, extraction >>

\* the operator monitor's tick, its call result and invocation count recorded
ObservedOperatorTick ==
  /\ operatorSteps < MaxSteps
  /\ \E c \in OperatorCallResults : OperatorTick(c) /\ operatorCall' = c
  /\ operatorSteps' = operatorSteps + 1
  /\ UNCHANGED << paused, pauseQuery, pauseSteps, call, extraction >>

\* ------------------------------------------------------ executeTransaction
\* the call returns r
Return(r) == result' = r /\ pc' = "done"

\* the call raises e, thrown by step
Raise(e, step) ==
  /\ result' = "raised"
  /\ raised' = e
  /\ raisedFrom' = step
  /\ pc' = "done"

\* the paused gate with its test negated
pausedGateNegated(value) == IF ~value THEN "paused" ELSE "continue"

\* what the paused gate does with the value read
pausedGate(value) == IF value THEN "paused" ELSE "continue"

\* the operator gate with its test negated
operatorGateNegated(value) == IF value THEN "unauthorized" ELSE "continue"

\* what the operator gate does with the value read
operatorGate(value) == IF ~value THEN "unauthorized" ELSE "continue"

\* if (await this.paused.value()) return 'paused'
ReadPaused ==
  /\ pc = "gate_paused"
  /\ IF pausedGate(paused) = "paused"
     THEN Return("paused")
     ELSE pc' = "gate_operator" /\ UNCHANGED result
  /\ UNCHANGED << monitored, specification, polled, replayed, observation,
                  extraction, feeData, paddedGasLimit, tx,
                  txRequest, txConfig, error, output, raised, raisedFrom,
                  counters >>

\* if (!(await this.isOperator.value())) return 'unauthorized'
ReadIsOperator ==
  /\ pc = "gate_operator"
  /\ IF operatorGate(isOperator) = "unauthorized"
     THEN Return("unauthorized")
     ELSE pc' = "await_fee" /\ UNCHANGED result
  /\ UNCHANGED << monitored, specification, polled, replayed, observation,
                  extraction, feeData, paddedGasLimit, tx,
                  txRequest, txConfig, error, output, raised, raisedFrom,
                  counters >>

\* one iteration of the loop of waitForGasPricesBelowThreshold
PollFeeData ==
  /\ pc = "await_fee"
  /\ feePolls < MaxPolls
  /\ \E data \in FeeSnapshots :
       /\ feePolls' = feePolls + 1
       /\ polled' = data
       /\ IF transactionType(data) = "throw"
          THEN /\ Raise(PlainError({}), "fee")
               /\ UNCHANGED << feeData, delays >>
          ELSE IF aboveThreshold(data, adjustedBaseFeePerGasMax(specification))
          THEN /\ delays' = delays + 1
               /\ UNCHANGED << pc, feeData, result, raised, raisedFrom >>
          ELSE /\ feeData' = acceptedFeeData(data)
               /\ pc' = "estimate"
               /\ UNCHANGED << delays, result, raised, raisedFrom >>
  /\ UNCHANGED << monitored, specification, replayed, observation,
                  extraction, paddedGasLimit, tx, txRequest,
                  txConfig, error, output, gasEstimations, sendCalls,
                  classified >>

\* await gasEstimation(): it returns an estimate or rejects
EstimateGas ==
  /\ pc = "estimate"
  /\ gasEstimations' = gasEstimations + 1
  /\ \/ \E estimate \in GasEstimates :
          /\ paddedGasLimit' = padGasLimit(estimate)
          /\ pc' = "first_send"
          /\ UNCHANGED << result, raised, raisedFrom >>
     \/ /\ Raise(PlainError({}), "estimate")
        /\ UNCHANGED paddedGasLimit
  /\ UNCHANGED << monitored, specification, polled, replayed, observation,
                  extraction, feeData, tx, txRequest, txConfig,
                  error, output, feePolls, sendCalls, delays, classified >>

\* the transactions the builder may have broadcast for the fee mechanism
FirstTransactions(type, gasLimit) ==
  IF type = "ZERO"
  THEN { [ hash |-> 1, payload |-> Payload, nonce |-> n, gasPrice |-> gp,
           maxFeePerGas |-> Null, maxPriorityFeePerGas |-> Null,
           gasLimit |-> gasLimit ] : n \in FirstNonces, gp \in LegacyGasPrices }
  ELSE { [ hash |-> 1, payload |-> Payload, nonce |-> n, gasPrice |-> Null,
           maxFeePerGas |-> f[1], maxPriorityFeePerGas |-> f[2],
           gasLimit |-> gasLimit ] : n \in FirstNonces, f \in ModernFees }

\* the TransactionConfig built from the first transaction
initialConfig(t, type, gasBump) ==
  [ attempt |-> 1, type |-> type, gasBump |-> gasBump, nonce |-> t.nonce,
    maxFeePerGas |-> t.maxFeePerGas,
    maxPriorityFeePerGas |-> t.maxPriorityFeePerGas,
    gasPrice |-> t.gasPrice, gasLimit |-> t.gasLimit ]

\* tx = await transaction(paddedGasLimit), outside the try block
FirstSend ==
  /\ pc = "first_send"
  /\ sendCalls' = sendCalls + 1
  /\ \/ \E t \in FirstTransactions(transactionType(feeData), paddedGasLimit) :
          /\ tx' = t
          /\ txConfig' = initialConfig(t, transactionType(feeData),
                           adjustedGasIncreaseFactor(specification))
          /\ pc' = "loop"
          /\ UNCHANGED << result, raised, raisedFrom >>
     \/ \E msg \in Messages :
          /\ Raise(PlainError(msg), "first_send")
          /\ UNCHANGED << tx, txConfig >>
  /\ UNCHANGED << monitored, specification, polled, replayed, observation,
                  extraction, feeData, paddedGasLimit,
                  txRequest, error, output, feePolls, gasEstimations, delays,
                  classified >>

\* the limit test off by one (>= in place of >)
limitReachedAtLimit(cfg, maxTransactionAttempts) ==
  maxTransactionAttempts # 0 /\ cfg.attempt >= maxTransactionAttempts

\* the limit test one attempt late
limitReachedLate(cfg, maxTransactionAttempts) ==
  maxTransactionAttempts # 0 /\ cfg.attempt > maxTransactionAttempts + 1

\* the test at the head of the while loop
limitReached(cfg, maxTransactionAttempts) ==
  maxTransactionAttempts # 0 /\ cfg.attempt > maxTransactionAttempts

\* head of the while loop: give up after the limit, else the next attempt
LoopHead ==
  /\ pc = "loop"
  /\ txConfig.attempt <= MaxAttempt
  /\ IF limitReached(txConfig, specification.maxTransactionAttempts)
     THEN /\ delays' = delays + 1
          /\ Return("undefined")
     ELSE /\ pc' = IF txConfig.attempt > 1 THEN "resend" ELSE "wait"
          /\ UNCHANGED << delays, result >>
  /\ UNCHANGED << monitored, specification, polled, replayed, observation,
                  extraction, feeData, paddedGasLimit, tx,
                  txRequest, txConfig, error, output, raised, raisedFrom,
                  feePolls, gasEstimations, sendCalls, classified >>

\* buildRequest taking the nonce of the last transaction sent
buildRequestStaleNonce(t, cfg) ==
  [ defined |-> TRUE, payload |-> t.payload, nonce |-> t.nonce,
    gasPrice |-> cfg.gasPrice, maxPriorityFeePerGas |-> cfg.maxPriorityFeePerGas,
    maxFeePerGas |-> cfg.maxFeePerGas, gasLimit |-> cfg.gasLimit ]

\* buildRequest taking the gas limit of the last transaction sent
buildRequestStaleGasLimit(t, cfg) ==
  [ defined |-> TRUE, payload |-> t.payload, nonce |-> cfg.nonce,
    gasPrice |-> cfg.gasPrice, maxPriorityFeePerGas |-> cfg.maxPriorityFeePerGas,
    maxFeePerGas |-> cfg.maxFeePerGas, gasLimit |-> t.gasLimit ]

\* the request of a resubmission
buildRequest(t, cfg) ==
  [ defined |-> TRUE, payload |-> t.payload, nonce |-> cfg.nonce,
    gasPrice |-> cfg.gasPrice, maxPriorityFeePerGas |-> cfg.maxPriorityFeePerGas,
    maxFeePerGas |-> cfg.maxFeePerGas, gasLimit |-> cfg.gasLimit ]

\* the response of wallet.sendTransaction for a request
response(req, hash) ==
  [ hash |-> hash, payload |-> req.payload, nonce |-> req.nonce,
    gasPrice |-> req.gasPrice, maxFeePerGas |-> req.maxFeePerGas,
    maxPriorityFeePerGas |-> req.maxPriorityFeePerGas,
    gasLimit |-> req.gasLimit ]

\* attempt > 1: tx = await this.wallet.sendTransaction(txRequest)
Resend ==
  /\ pc = "resend"
  /\ txRequest' = buildRequest(tx, txConfig)
  /\ sendCalls' = sendCalls + 1
  /\ \/ /\ tx' = response(txRequest', sendCalls')
        /\ pc' = "wait"
        /\ UNCHANGED error
     \/ \E msg \in Messages :
          /\ error' = PlainError(msg)
          /\ pc' = "caught"
          /\ UNCHANGED tx
  /\ UNCHANGED << monitored, specification, polled, replayed, observation,
                  extraction, feeData, paddedGasLimit, txConfig,
                  output, result, raised, raisedFrom, feePolls,
                  gasEstimations, delays, classified >>

\* the status test against null in place of 0
receiptFailedIfAbsent(status) == status = Null

\* receipt.status == 0
receiptFailed(status) == status = 0

\* await this.ethereum.waitForTransaction(tx.hash, 3, gasIncreaseTimeout)
WaitForTransaction ==
  /\ pc = "wait"
  /\ \/ \E status \in {0, 1} :
          IF receiptFailed(status)
          THEN /\ pc' = "diagnose"
               /\ UNCHANGED << output, result, error >>
          ELSE /\ output' = [status |-> status, hash |-> tx.hash]
               /\ Return("confirmed")
               /\ UNCHANGED error
     \/ \E msg \in Messages :
          /\ error' = PlainError(msg)
          /\ pc' = "caught"
          /\ UNCHANGED << output, result >>
  /\ UNCHANGED << monitored, specification, polled, replayed, observation,
                  extraction, feeData, paddedGasLimit, tx,
                  txRequest, txConfig, raised, raisedFrom, counters >>

\* getRevertReason(logger, txRequest) and the throw that follows it
Diagnose ==
  /\ pc = "diagnose"
  /\ replayed' = txRequest
  /\ \E o \in CallOutcomes : error' = revertError(o)
  /\ pc' = "caught"
  /\ UNCHANGED << monitored, specification, polled, observation,
                  extraction, feeData, paddedGasLimit, tx,
                  txRequest, txConfig, output, result, raised, raisedFrom,
                  counters >>

\* catch (error) { txConfig = await this.updateTransactionConfig(...) }
Classify ==
  /\ pc = "caught"
  /\ LET r == updateTransactionConfig(txConfig, error) IN
       /\ txConfig' = r.txConfig
       /\ classified' = classified + 1
       /\ delays' = IF r.delayed THEN delays + 1 ELSE delays
       /\ IF r.thrown # NoError
          THEN Raise(r.thrown, "classifier")
          ELSE pc' = "loop" /\ UNCHANGED << result, raised, raisedFrom >>
  /\ error' = NoError
  /\ UNCHANGED << monitored, specification, polled, replayed, observation,
                  extraction, feeData, paddedGasLimit, tx,
                  txRequest, output, feePolls, gasEstimations, sendCalls >>

Next ==
  \/ MonitorNetworkPauses
  \/ MonitorIsOperator
  \/ ReadPaused
  \/ ReadIsOperator
  \/ PollFeeData
  \/ EstimateGas
  \/ FirstSend
  \/ LoopHead
  \/ Resend
  \/ WaitForTransaction
  \/ Diagnose
  \/ Classify

Spec == Init /\ [][Next]_vars

\* the steps of executeTransaction after the fee wait: every awaited call
\* (estimate, send, wait, replay, delay) returns or raises
AttemptSteps ==
  \/ EstimateGas
  \/ FirstSend
  \/ LoopHead
  \/ Resend
  \/ WaitForTransaction
  \/ Diagnose
  \/ Classify

LiveSpec == Spec /\ WF_vars(AttemptSteps)

\* findEvent called on a receipt
CallFindEvent ==
  /\ findPc = "idle"
  /\ found' = findEvent(events, logValue)
  /\ findPc' = "returned"
  /\ UNCHANGED << monitored, call, observation, events, logValue >>

\* a receipt and a value to look for, findEvent not yet called
FindEventInit ==
  /\ paused = FALSE
  /\ isOperator = TRUE
  /\ specification \in Specifications
  /\ CallStarted
  /\ ObservationIdle
  /\ events \in Receipts
  /\ logValue \in LogValues
  /\ found = Absent
  /\ findPc = "idle"

FindEventNext == CallFindEvent
FindEventSpec == FindEventInit /\ [][FindEventNext]_vars

\* the two monitors alone, their ticks observed
MonitorNext == ObservedPauseTick \/ ObservedOperatorTick
MonitorSpec == Init /\ [][MonitorNext]_vars

\* ----------------------------------------------------------------- claims
\* the step is one of executeTransaction leaving the position at
Leaves(at) == pc = at /\ pc' # pc

\* C1: gating short-circuits: a paused value read as true returns Paused
\* (whatever the operator value is), else an operator value read as false
\* returns Unauthorized, and in both cases no fee poll, no gas estimation
\* and no send call has happened.
C1_GatingShortCircuits ==
  [][ /\ (Leaves("gate_paused") /\ paused => result' = "paused")
      /\ (Leaves("gate_paused") /\ ~paused =>
            result' = "none" /\ pc' = "gate_operator")
      /\ (Leaves("gate_operator") /\ ~isOperator => result' = "unauthorized")
      /\ (result' \in {"paused", "unauthorized"} =>
            /\ pc' = "done"
            /\ feePolls' = 0 /\ gasEstimations' = 0 /\ sendCalls' = 0) ]_vars

\* C1 witness: the call returned Paused while also unauthorized
C1_Witness ==
  result = "paused" /\ paused /\ ~isOperator /\ sendCalls = 0

\* C2: an error raised by a send or a wait, on any attempt including the
\* first broadcast, reaches the classifier: an error that escapes the call
\* after the fee policy and the gas estimation was thrown by the classifier.
C2_OnlyClassifiedErrorsEscape ==
  result = "raised" /\ raisedFrom \notin {"fee", "estimate"} =>
    raisedFrom = "classifier" /\ classified > 0

\* C3: a failure receipt whose diagnosed reason is neither "out of gas" nor
\* "unknown" (error IE057) is fatal: the call raises and sends nothing more.
C3_OtherRevertReasonIsFatal ==
  [][ Leaves("caught") /\ error = indexerError("IE057") =>
        result' = "raised" /\ pc' = "done" ]_vars

\* C4: a failure receipt whose reason is undiagnosable (the replayed call
\* raised for a cause other than out of gas, or the reason is "unknown") is
\* fatal: the call raises, the attempt counter is not incremented and
\* nothing more is sent.
C4_UndiagnosableRevertIsFatal ==
  [][ Leaves("caught") /\ error \in {indexerError("IE051"), typeError} =>
        /\ result' = "raised" /\ pc' = "done"
        /\ txConfig'.attempt = txConfig.attempt ]_vars

\* C5: a send / wait error saying the same hash was already imported or the
\* nonce has already been used leaves the TransactionConfig as it is and
\* raises IE058 after the 30 s delay; nothing is sent after an error raised.
C5_DuplicateBroadcastIsFatalAfterDelay ==
  [][ /\ (Leaves("caught") /\ error.cls = "Error"
            /\ (SameHash \in error.msg \/ NonceUsed \in error.msg) =>
            /\ txConfig' = txConfig
            /\ result' = "raised" /\ raised' = indexerError("IE058")
            /\ delays' = delays + 1
            /\ pc' = "done")
      /\ (result = "raised" => sendCalls' = sendCalls /\ result' = "raised") ]_vars

\* C5 witness: IE058 was raised, after the delay, by a classified send or wait error
C5_Witness ==
  result = "raised" /\ raised = indexerError("IE058") /\ delays >= 1
    /\ txConfig.attempt >= 1

\* C6: a receipt is returned only when the wait for the last transaction
\* broadcast gave a receipt with success status; a failure receipt is never
\* returned, and nothing is sent after Confirmed.
C6_ConfirmedOnlyOnSuccessReceipt ==
  [][ /\ (result' = "confirmed" =>
            /\ output'.status = 1
            /\ output'.hash = tx'.hash /\ output'.hash = sendCalls'
            /\ pc' = "done")
      /\ (output' # NoReceipt => result' = "confirmed" /\ output'.status # 0)
      /\ (result' = "confirmed" /\ result = "none" => pc = "wait")
      /\ (result = "confirmed" =>
            sendCalls' = sendCalls /\ result' = result /\ output' = output) ]_vars

\* C6 witness: a resubmitted transaction was confirmed
C6_Witness ==
  result = "confirmed" /\ output.status = 1 /\ output.hash = 2 /\ sendCalls = 2

\* C7: with a non-zero attempt limit exceeded by the attempt counter the
\* call waits 30 s and returns without a receipt and without raising; the
\* call returns that way only then, so never when the limit is 0.
C7_AttemptLimitGivesUp ==
  [][ /\ (Leaves("loop") /\ specification.maxTransactionAttempts # 0
            /\ txConfig.attempt > specification.maxTransactionAttempts =>
            /\ result' = "undefined" /\ pc' = "done"
            /\ delays' = delays + 1
            /\ output' = NoReceipt /\ raised' = NoError
            /\ sendCalls' = sendCalls)
      /\ (Leaves("loop")
            /\ ~(specification.maxTransactionAttempts # 0
                 /\ txConfig.attempt > specification.maxTransactionAttempts) =>
            result' = "none" /\ pc' \in {"resend", "wait"})
      /\ (result' = "undefined" /\ result = "none" =>
            /\ specification.maxTransactionAttempts # 0
            /\ txConfig.attempt > specification.maxTransactionAttempts) ]_vars

\* C7 witness: the call gave up right after the limit was exceeded
C7_Witness ==
  /\ result = "undefined" /\ output = NoReceipt /\ raised = NoError
  /\ txConfig.attempt = specification.maxTransactionAttempts + 1
  /\ delays >= 1

\* the classifier's unmatched fallback: an indexer error other than IE050
\* and IE051, or a plain error with none of the substrings looked for
Unmatched(e) ==
  \/ e.cls = "IndexerError" /\ e.code \notin {"IE050", "IE051"}
  \/ e.cls = "Error" /\ e.msg = {}

\* C8: every classification that returns to the loop increments the attempt
\* counter by exactly 1 (and nothing else changes it after the first send);
\* the unmatched fallback returns to the loop with every other field of the
\* TransactionConfig unchanged.
C8_AttemptIncrementsByOne ==
  [][ /\ (Leaves("caught") /\ pc' = "loop" =>
            txConfig'.attempt = txConfig.attempt + 1)
      /\ (pc \notin {"caught", "first_send"} => txConfig' = txConfig)
      /\ (Leaves("caught") /\ Unmatched(error) =>
            /\ pc' = "loop"
            /\ txConfig' = [txConfig EXCEPT !.attempt = txConfig.attempt + 1]) ]_vars

\* C8 witness: the second attempt starts with the first transaction's fields
C8_Witness ==
  /\ pc = "loop" /\ txConfig.attempt = 2 /\ classified = 1
  /\ txConfig.nonce = tx.nonce /\ txConfig.gasLimit = tx.gasLimit
  /\ txConfig.gasPrice = tx.gasPrice /\ txConfig.maxFeePerGas = tx.maxFeePerGas
  /\ txConfig.maxPriorityFeePerGas = tx.maxPriorityFeePerGas

\* a plain error classified as fee too low / timeout exceeded
FeeTooLow(e) ==
  /\ e.cls = "Error"
  /\ SameHash \notin e.msg /\ NonceUsed \notin e.msg /\ NonceLow \notin e.msg
  /\ (TryFee \in e.msg \/ PriceLow \in e.msg \/ Timeout \in e.msg)

\* C9: fee too low / timeout exceeded bumps the fee of the current config by
\* value * gasBump / 1000 in integers: gasPrice alone for Legacy, both
\* maxFeePerGas and maxPriorityFeePerGas for Modern; nonce and gasLimit
\* stay, and the bump applies to the config as already bumped (100 gives
\* 120, then 144 with factor 1200).
C9_FeeBumpCompounds ==
  [][ Leaves("caught") /\ FeeTooLow(error) =>
        /\ pc' = "loop"
        /\ txConfig'.nonce = txConfig.nonce
        /\ txConfig'.gasLimit = txConfig.gasLimit
        /\ txConfig'.type = txConfig.type /\ txConfig'.gasBump = txConfig.gasBump
        /\ (txConfig.type = "ZERO" =>
              /\ txConfig'.gasPrice = (txConfig.gasPrice * txConfig.gasBump) \div 1000
              /\ txConfig'.maxFeePerGas = txConfig.maxFeePerGas
              /\ txConfig'.maxPriorityFeePerGas = txConfig.maxPriorityFeePerGas)
        /\ (txConfig.type = "TWO" =>
              /\ txConfig'.gasPrice = txConfig.gasPrice
              /\ txConfig'.maxFeePerGas =
                   (txConfig.maxFeePerGas * txConfig.gasBump) \div 1000
              /\ txConfig'.maxPriorityFeePerGas =
                   (txConfig.maxPriorityFeePerGas * txConfig.gasBump) \div 1000)
        /\ (txConfig.gasBump = 1200 /\ txConfig.gasPrice = 100 =>
              txConfig'.gasPrice = 120)
        /\ (txConfig.gasBump = 1200 /\ txConfig.gasPrice = 120 =>
              txConfig'.gasPrice = 144) ]_vars

\* C9 witness: two bumps of gasPrice 100 with factor 1200
C9_Witness ==
  /\ txConfig.type = "ZERO" /\ txConfig.gasBump = 1200
  /\ txConfig.attempt = 3 /\ txConfig.gasPrice = 144
  /\ txConfig.nonce \in FirstNonces /\ txConfig.gasLimit = paddedGasLimit

\* C10: nonce too low increments the nonce by exactly 1, leaves gasPrice,
\* maxFeePerGas, maxPriorityFeePerGas and gasLimit as they are, and retries.
C10_NonceTooLowBumpsNonceOnly ==
  [][ Leaves("caught") /\ error.cls = "Error" /\ NonceLow \in error.msg
        /\ SameHash \notin error.msg /\ NonceUsed \notin error.msg =>
        /\ pc' = "loop"
        /\ txConfig' = [txConfig EXCEPT !.nonce = txConfig.nonce + 1,
                                        !.attempt = txConfig.attempt + 1] ]_vars

\* C10 witness: a retry after nonce too low, the nonce one above the first
C10_Witness ==
  /\ pc = "loop" /\ txConfig.attempt = 2
  /\ txConfig.nonce = tx.nonce + 1 /\ txConfig.gasLimit = tx.gasLimit
  /\ txConfig.gasPrice = tx.gasPrice

\* C11: a failure receipt diagnosed as out of gas (IE050) does not escape:
\* the classifier sets gasLimit to gasLimit * gasBump / 1000, adds 1 to the
\* nonce, leaves the fee fields, and the next request sent carries the
\* config's gasLimit and nonce.
C11_OutOfGasBumpsGasLimitAndNonce ==
  [][ /\ (Leaves("caught") /\ error = indexerError("IE050") =>
            /\ pc' = "loop" /\ result' = "none"
            /\ txConfig' =
                 [txConfig EXCEPT
                    !.gasLimit = (txConfig.gasLimit * txConfig.gasBump) \div 1000,
                    !.nonce = txConfig.nonce + 1,
                    !.attempt = txConfig.attempt + 1])
      /\ (Leaves("resend") =>
            /\ txRequest'.gasLimit = txConfig.gasLimit
            /\ txRequest'.nonce = txConfig.nonce
            /\ sendCalls' = sendCalls + 1) ]_vars

\* C11 witness: the transaction was sent again with the gas limit bumped
\* once and the nonce one above the first
C11_Witness ==
  /\ pc = "wait" /\ sendCalls = 2 /\ txRequest.defined
  /\ txRequest.gasLimit = (paddedGasLimit * 1200) \div 1000
  /\ txRequest.gasLimit > paddedGasLimit
  /\ txRequest.nonce - 1 \in FirstNonces
  /\ tx.nonce = txRequest.nonce /\ tx.gasLimit = txRequest.gasLimit

\* the configured ceiling, and the reference fee of a valid snapshot:
\* (maxFeePerGas - maxPriorityFeePerGas) / 2 for Modern, gasPrice for Legacy
Ceiling ==
  IF specification.baseFeePerGasMax # 0
  THEN specification.baseFeePerGasMax ELSE specification.gasPriceMax
IsModern(d) == d.maxFeePerGas # Null /\ d.maxPriorityFeePerGas # Null
IsValid(d) == IsModern(d) \/ d.gasPrice # Null
Reference(d) ==
  IF IsModern(d) THEN (d.maxFeePerGas - d.maxPriorityFeePerGas) \div 2
  ELSE d.gasPrice

\* a poll of the fee policy was answered in this step
Polled == feePolls' = feePolls + 1

\* C12 as claimed: a poll returns its snapshot exactly when the reference
\* fee is <= the ceiling, and waits 30 s otherwise.
C12_ReturnsAtOrBelowCeiling ==
  [][ Polled /\ IsValid(polled') =>
        IF Reference(polled') <= Ceiling
        THEN pc' = "estimate" /\ delays' = delays
        ELSE pc' = "await_fee" /\ delays' = delays + 1 ]_vars

\* C12 amended: a poll returns its snapshot exactly when the reference fee
\* is strictly below the ceiling and waits 30 s otherwise, so the snapshot
\* returned is the first one below the ceiling, after one wait per earlier
\* poll (third poll, 2 waits for 150, 120, 90 under ceiling 100).
C12_ReturnsBelowCeiling ==
  [][ /\ (Polled /\ IsValid(polled') =>
            IF Reference(polled') < Ceiling
            THEN /\ pc' = "estimate" /\ delays' = delays
                 /\ feeData'.maxFeePerGas = polled'.maxFeePerGas
                 /\ feeData'.maxPriorityFeePerGas = polled'.maxPriorityFeePerGas
                 /\ feeData'.gasPrice =
                      IF IsModern(polled') THEN Null ELSE polled'.gasPrice
            ELSE /\ pc' = "await_fee" /\ delays' = delays + 1
                 /\ feeData' = feeData)
      /\ (pc' = "estimate" /\ pc # pc' =>
            Polled /\ delays' = feePolls' - 1 /\ Reference(feeData') < Ceiling)
      /\ (pc = "await_fee" /\ pc' = pc /\ delays' # delays => Polled) ]_vars

\* C12 witness: fee 90 returned by the third poll after 2 waits, ceiling 100
C12_Witness ==
  /\ pc = "estimate" /\ feePolls = 3 /\ delays = 2 /\ Ceiling = 100
  /\ polled = FeeData(90, Null, Null) /\ feeData = polled

\* C13 as claimed: both gates are read before every submission attempt: no
\* resubmission is sent while the paused value is true or the operator
\* value is false.
C13_GatesBeforeEveryAttempt ==
  [][ pc = "resend" /\ sendCalls' = sendCalls + 1 => ~paused /\ isOperator ]_vars

\* C13 amended: both gates are read once, at the start of the call: the
\* call goes on only with paused read false and operator read true, never
\* returns to a gate, and once past them every send and resend step sends
\* whatever the monitors have published since.
C13_GatesReadOnceAtStart ==
  [][ /\ (Leaves("gate_paused") /\ pc' = "gate_operator" => ~paused)
      /\ (Leaves("gate_operator") /\ pc' = "await_fee" => isOperator)
      /\ (pc' = "await_fee" /\ pc # pc' => pc = "gate_operator")
      /\ (pc' \in {"gate_paused", "gate_operator"} =>
            pc \in {"gate_paused", "gate_operator"})
      /\ (sendCalls' # sendCalls => pc \in {"first_send", "resend"})
      /\ (Leaves("first_send") \/ Leaves("resend") =>
            sendCalls' = sendCalls + 1) ]_vars

\* C13 witness: a resubmission is out while paused and not authorized
C13_Witness ==
  pc = "wait" /\ sendCalls = 2 /\ tx.hash = 2 /\ paused /\ ~isOperator

\* the call moves to position at in this step
Enters(at) == pc' = at /\ pc # pc'

\* C14: attempts are sequential: a resubmission starts only from the loop
\* head, reached only after the previous send or wait ended in an error
\* or a failure receipt that was classified; the nonce of the config only
\* ever grows by 1, each request carries the config's nonce, and the nonces
\* broadcast never decrease.
C14_SequentialAttemptsMonotoneNonce ==
  [][ /\ (Enters("resend") => pc = "loop" /\ txConfig.attempt > 1)
      /\ (Enters("loop") => pc \in {"caught", "first_send"})
      /\ (Enters("caught") =>
            pc \in {"resend", "wait", "diagnose"} /\ error' # NoError)
      /\ (Enters("diagnose") => pc = "wait")
      /\ (Enters("wait") =>
            pc = "resend" \/ (pc = "loop" /\ txConfig.attempt = 1))
      /\ (pc # "first_send" =>
            txConfig'.nonce \in {txConfig.nonce, txConfig.nonce + 1})
      /\ (Leaves("resend") =>
            txRequest'.nonce = txConfig.nonce /\ txRequest'.nonce >= tx.nonce)
      /\ (tx' # tx /\ pc = "resend" =>
            tx'.nonce = txRequest'.nonce /\ tx'.nonce >= tx.nonce
            /\ tx'.hash > tx.hash) ]_vars

\* C14 witness: the third send is out with the nonce two above the first
C14_Witness ==
  pc = "wait" /\ sendCalls = 3 /\ tx.hash = 3 /\ tx.nonce - 2 \in FirstNonces

\* C15: a snapshot with both maxFeePerGas and maxPriorityFeePerGas is
\* Modern (it is compared by its base fee, returned with gasPrice absent,
\* and the config gets type 2); one with gasPrice and not both of them is
\* Legacy (compared by gasPrice, returned as it is, config of type 0); one
\* with neither raises, which ends the call before anything is estimated
\* or sent.
C15_ClassifyMechanism ==
  [][ /\ (Polled /\ IsModern(polled') =>
            /\ result' = "none"
            /\ (pc' = "estimate" <=>
                  (polled'.maxFeePerGas - polled'.maxPriorityFeePerGas) \div 2
                    < Ceiling)
            /\ (pc' = "estimate" =>
                  feeData' = [polled' EXCEPT !.gasPrice = Null]))
      /\ (Polled /\ ~IsModern(polled') /\ polled'.gasPrice # Null =>
            /\ result' = "none"
            /\ (pc' = "estimate" <=> polled'.gasPrice < Ceiling)
            /\ (pc' = "estimate" => feeData' = polled'))
      /\ (Polled /\ ~IsModern(polled') /\ polled'.gasPrice = Null =>
            /\ result' = "raised" /\ raisedFrom' = "fee" /\ pc' = "done"
            /\ gasEstimations' = 0 /\ sendCalls' = 0)
      /\ (Leaves("first_send") /\ pc' = "loop" =>
            txConfig'.type = IF IsModern(feeData) THEN "TWO" ELSE "ZERO")
      /\ (raisedFrom = "fee" => sendCalls' = 0 /\ pc' = "done") ]_vars

\* C15 witness: a snapshot with no fee field ended the call, nothing sent
C15_Witness ==
  /\ result = "raised" /\ raisedFrom = "fee" /\ polled = NoFeeData
  /\ sendCalls = 0 /\ gasEstimations = 0

\* C16: a monitor step whose query fails (error, or no data for the pause
\* query) publishes the previous value; one that succeeds publishes the
\* value queried, also after a failed step.
C16_FailedMonitorStepKeepsValue ==
  [][ /\ (pauseSteps' = pauseSteps + 1 =>
            paused' = IF pauseQuery'.error \/ ~pauseQuery'.hasData
                      THEN paused ELSE pauseQuery'.isPaused)
      /\ (operatorSteps' = operatorSteps + 1 =>
            isOperator' = IF operatorCall'.error
                          THEN isOperator ELSE operatorCall'.value)
      /\ (paused' # paused => pauseSteps' = pauseSteps + 1)
      /\ (isOperator' # isOperator => operatorSteps' = operatorSteps + 1) ]_vars

\* C16 witness: the second pause step failed and the value is still true
C16_Witness ==
  pauseSteps = 2 /\ pauseQuery.error /\ paused

\* the same text up to the case of its letters
SameText(a, b) ==
  a = b \/ {a, b} \in { {"0xA", "0xa"}, {"0xB", "0xb"}, {"0xC", "0xc"} }

\* the log entries with the expected topic whose field is the value sought
Matching ==
  { i \in 1..Len(events) :
      ExpectedTopic \in events[i].topics /\ SameText(events[i].field, logValue) }

\* C17: findEvent returns the decoded event of the first log entry, in log
\* order, that has the expected topic and whose field equals the value
\* sought up to case, and absent when there is none.
C17_FindEventFirstMatch ==
  findPc = "returned" =>
    IF Matching = {}
    THEN found = Absent
    ELSE /\ found.present
         /\ found.logIndex \in Matching
         /\ \A i \in Matching : found.logIndex <= i
         /\ found.field = events[found.logIndex].field

\* C17 witness: of two entries with the topic, fields "0xA" then "0xB",
\* the second is returned for "0xb"
C17_Witness ==
  /\ findPc = "returned" /\ Len(events) = 3 /\ logValue = "0xb"
  /\ events[1] = [topics |-> {ExpectedTopic}, field |-> "0xA"]
  /\ events[2].topics = {OtherTopic}
  /\ events[3] = [topics |-> {ExpectedTopic}, field |-> "0xB"]
  /\ found = [present |-> TRUE, field |-> "0xB", logIndex |-> 3]

\* C18: the request of a resubmission takes nonce, gas limit and the three
\* fee fields from the config as it is then and its payload from the
\* transaction before it, which is the original payload; the gas estimator
\* and the fee wait are each entered once at most, before the first send,
\* and nothing they produced changes once a transaction has been sent.
C18_RetryTakesConfigAndPayload ==
  [][ /\ (Leaves("resend") =>
            /\ txRequest'.defined
            /\ txRequest'.nonce = txConfig.nonce
            /\ txRequest'.gasLimit = txConfig.gasLimit
            /\ txRequest'.gasPrice = txConfig.gasPrice
            /\ txRequest'.maxFeePerGas = txConfig.maxFeePerGas
            /\ txRequest'.maxPriorityFeePerGas = txConfig.maxPriorityFeePerGas
            /\ txRequest'.payload = tx.payload
            /\ txRequest'.payload = Payload)
      /\ (gasEstimations' # gasEstimations =>
            /\ pc = "estimate" /\ sendCalls = 0
            /\ gasEstimations = 0 /\ gasEstimations' = 1)
      /\ (Enters("await_fee") => feePolls = 0 /\ pc = "gate_operator")
      /\ (feePolls' # feePolls =>
            pc = "await_fee" /\ sendCalls = 0 /\ gasEstimations = 0)
      /\ (sendCalls > 0 =>
            UNCHANGED << feePolls, gasEstimations, feeData, paddedGasLimit >>)
    ]_vars

\* C18 witness: a resubmission is out with the payload of the first, one
\* nonce further and a gas limit above the padded estimate, after one
\* estimation
C18_Witness ==
  /\ pc = "wait" /\ sendCalls = 2 /\ gasEstimations = 1 /\ feePolls >= 1
  /\ txRequest.defined /\ txRequest.payload = Payload
  /\ txRequest.gasLimit > paddedGasLimit
  /\ txRequest.gasLimit = txConfig.gasLimit
  /\ txRequest.nonce - 1 \in FirstNonces

\* C19: the request handed to getRevertReason is always the request of the
\* transaction sent last: it is never absent and never differs from that
\* transaction in nonce, gas limit, fee fields or payload.
C19_DiagnoserGivenLastRequest ==
  [][ Leaves("diagnose") =>
        /\ replayed'.defined
        /\ replayed'.nonce = tx.nonce
        /\ replayed'.gasLimit = tx.gasLimit
        /\ replayed'.gasPrice = tx.gasPrice
        /\ replayed'.maxFeePerGas = tx.maxFeePerGas
        /\ replayed'.maxPriorityFeePerGas = tx.maxPriorityFeePerGas
        /\ replayed'.payload = tx.payload ]_vars

\* the call is past the fee wait and has not ended
InAttempts ==
  pc \in {"estimate", "first_send", "loop", "resend", "wait", "diagnose",
          "caught"}

\* C20: with an attempt limit N >= 1 a call broadcasts at most N times (the
\* first send and the resubmissions of attempts 2..N) and its attempt
\* counter never passes N + 1; every classification that returns to the
\* loop raises the counter; and a call past the fee wait whose awaited
\* calls all return or raise ends: confirmed, raised, or given up.
C20_BoundedBroadcastsAndTermination ==
  /\ [](specification.maxTransactionAttempts >= 1 =>
          /\ sendCalls <= specification.maxTransactionAttempts
          /\ txConfig.attempt <= specification.maxTransactionAttempts + 1)
  /\ [][ pc = "caught" /\ pc' = "loop" =>
           txConfig'.attempt > txConfig.attempt ]_vars
  /\ ((specification.maxTransactionAttempts >= 1 /\ InAttempts)
        ~> (pc = "done"
              /\ result \in {"confirmed", "raised", "undefined"}))

\* C20 witness: a call with limit 2 gave up after exactly 2 broadcasts
C20_Witness ==
  /\ pc = "done" /\ result = "undefined"
  /\ specification.maxTransactionAttempts = 2
  /\ sendCalls = 2 /\ txConfig.attempt = 3

====
